---- MODULE Spec2Model ----
(***************************************************************************)
(* typed-dialogflow: one detect_intent_serde call (src/src/lib.rs) and the *)
(* serde enum deserializer built on the raw response (src/src/model.rs).   *)
(*                                                                         *)
(* The call is an async function: each await point is a position of pc.    *)
(* The decode I::deserialize(res) is driven by the derived visitor of the  *)
(* caller's enum I: deserialize_enum -> visit_enum -> variant_seed, then   *)
(* exactly one VariantAccess method chosen by the kind of the variant.     *)
(***************************************************************************)
EXTENDS Integers, Sequences, FiniteSets, TLC

VARIABLES
    I,          \* the caller's enum type: a set of variant descriptors
    pc,         \* position of the call
    body,       \* wire payload returned by the POST
    res,        \* DetectIntentResponse parsed by res.json()
    selected,   \* variant the identifier seed resolved to
    params,     \* Parameters(JsonValue) handed out by variant_seed
    derr,       \* serde::de::value::Error of I::deserialize, before map_err
    result,     \* Result<I, DialogflowError> returned to the caller
    nToken,     \* get_token calls made
    nPost,      \* POST requests sent
    nJson,      \* res.json() parses run
    nDecode,    \* I::deserialize invocations
    bagReads    \* times the parameter value was inspected by a decoder

vars == <<I, pc, body, res, selected, params, derr, result,
          nToken, nPost, nJson, nDecode, bagReads>>

----------------------------------------------------------------------------
(* Bounds *)

MaxArrayLen == 2

----------------------------------------------------------------------------
(* serde_json::Value.  A parameter entry is a scalar [t, s, n]; the value  *)
(* of `parameters` itself has one record shape for every JSON kind:        *)
(*   t : "null" | "string" | "array" | "object"                            *)
(*   a : elements of an array                                              *)
(*   m : entries of an object, Absent for a key the object does not have   *)

Sc(t, s, n) == [t |-> t, s |-> s, n |-> n]

Absent == Sc("absent", "", 0)

ScNull == Sc("null", "", 0)

ScStr(x) == Sc("string", x, 0)

ScNum(x) == Sc("number", "", x)

Scalars == {ScNull, ScStr("Paris"), ScNum(3)}

Keys == {"location", "days", "extra"}

NoEntries == [k \in Keys |-> Absent]

JNull == [t |-> "null", s |-> "", a |-> <<>>, m |-> NoEntries]

JStr(x) == [t |-> "string", s |-> x, a |-> <<>>, m |-> NoEntries]

JArr(x) == [t |-> "array", s |-> "", a |-> x, m |-> NoEntries]

JObj(x) == [t |-> "object", s |-> "", a |-> <<>>, m |-> x]

SeqsUpTo(S, k) == UNION {[1..j -> S] : j \in 0..k}

Objects == {JObj(f) : f \in [Keys -> Scalars \cup {Absent}]}

Arrays == {JArr(q) : q \in SeqsUpTo(Scalars, MaxArrayLen)}

JsonValues == {JNull, JStr("Paris")} \cup Arrays \cup Objects

Present(bag) == {k \in Keys : bag.m[k] # Absent}

----------------------------------------------------------------------------
(* Option<Intent> of QueryResult *)

NoIntent == [some |-> FALSE, name |-> ""]

SomeIntent(x) == [some |-> TRUE, name |-> x]

IntentNames ==
    {"hello", "Hello", "hell", "weather", "unknown", "unrecognized",
     "say", "pair", "goodbye"}

Intents == {NoIntent} \cup {SomeIntent(x) : x \in IntentNames}

----------------------------------------------------------------------------
(* The caller's enum I: variants with their serde tag (after rename_all),  *)
(* their kind and, for struct variants, their fields in declaration order. *)

Field(name, ty, optional) == [name |-> name, ty |-> ty, optional |-> optional]

Variant(tag, kind, fields) == [tag |-> tag, kind |-> kind, fields |-> fields]

Hello == Variant("hello", "unit", <<>>)

Weather ==
    Variant("weather", "struct",
            <<Field("location", "string", FALSE), Field("days", "number", TRUE)>>)

Unknown == Variant("unknown", "unit", <<>>)

UnknownWith ==
    Variant("unknown", "struct",
            <<Field("days", "number", FALSE), Field("location", "string", FALSE)>>)

Unrecognized == Variant("unrecognized", "unit", <<>>)

Say == Variant("say", "newtype", <<>>)

Pair == Variant("pair", "tuple", <<>>)

VariantPool == {Hello, Weather, Unknown, UnknownWith, Unrecognized, Say, Pair}

UniqueTags(E) == \A v \in E : \A w \in E : v.tag = w.tag => v = w

EnumTypes == {E \in SUBSET VariantPool : E # {} /\ UniqueTags(E)}

----------------------------------------------------------------------------
(* serde::de::value::Error, by the constructor that built it.              *)
(* unknown_variant carries the tag, missing_field the field name;          *)
(* invalid_type and invalid_length carry no field name.                    *)

NoError == [kind |-> "none", detail |-> ""]

SerdeError(kind, detail) == [kind |-> kind, detail |-> detail]

(* A value of the caller's enum: the variant and its decoded fields. *)

NoValue == [tag |-> "", fields |-> NoEntries]

EnumValue(tag, fields) == [tag |-> tag, fields |-> fields]

NoVariant == Variant("", "none", <<>>)

----------------------------------------------------------------------------
(* EnumAccess::variant_seed: the selection tag and its resolution by the   *)
(* identifier seed of I (an exact comparison with each variant tag).       *)

\* the marker spelled as another name for "not understood"
FallbackMarkerOther == "unrecognized"

FallbackMarker == "unknown"

\* an absent intent resolved as the empty name
SelectionTagEmpty(intent) == IF intent.some THEN intent.name ELSE ""

SelectionTag(intent) == IF intent.some THEN intent.name ELSE FallbackMarker

Lower(x) == IF x = "Hello" THEN "hello" ELSE x

\* tags compared without regard to case
MatchesIgnoreCase(tag, v) == Lower(v.tag) = Lower(tag)

Matches(tag, v) == v.tag = tag

\* the parameters validated before the tag is resolved
VariantSeedEager(E, r) ==
    LET tag == SelectionTag(r.intent)
    IN  IF \E v \in E : Matches(tag, v)
        THEN [ok |-> TRUE, variant |-> CHOOSE v \in E : Matches(tag, v),
              err |-> NoError, reads |-> 1]
        ELSE [ok |-> FALSE, variant |-> NoVariant,
              err |-> SerdeError("unknown_variant", tag), reads |-> 1]

VariantSeed(E, r) ==
    LET tag == SelectionTag(r.intent)
    IN  IF \E v \in E : Matches(tag, v)
        THEN [ok |-> TRUE, variant |-> CHOOSE v \in E : Matches(tag, v),
              err |-> NoError, reads |-> 0]
        ELSE [ok |-> FALSE, variant |-> NoVariant,
              err |-> SerdeError("unknown_variant", tag), reads |-> 0]

----------------------------------------------------------------------------
(* VariantAccess::struct_variant: Value::deserialize_struct driving the    *)
(* derived visitor of the variant.                                         *)

Coerces(f, x) ==
    \/ x.t = f.ty
    \/ f.optional /\ x.t = "null"

FieldValue(f, x) == IF x = Absent THEN ScNull ELSE x

FieldNames(fields) == {fields[i].name : i \in 1..Len(fields)}

Declared(fields, k) == k \in FieldNames(fields)

FieldOf(fields, k) == fields[CHOOSE i \in 1..Len(fields) : fields[i].name = k]

\* a missing field filled with a default instead of reported
VisitMapDefaulting(fields, m) ==
    LET bad == {k \in Keys : /\ m[k] # Absent
                             /\ Declared(fields, k)
                             /\ ~Coerces(FieldOf(fields, k), m[k])}
    IN  IF bad # {}
        THEN [ok |-> FALSE, fields |-> NoEntries,
              err |-> SerdeError("invalid_type", "")]
        ELSE [ok |-> TRUE,
              fields |-> [k \in Keys |->
                            IF Declared(fields, k)
                            THEN FieldValue(FieldOf(fields, k), m[k])
                            ELSE Absent],
              err |-> NoError]

\* an entry of an undeclared key reported as an error (deny_unknown_fields)
VisitMapDenyUnknown(fields, m) ==
    LET bad == {k \in Keys : /\ m[k] # Absent
                             /\ Declared(fields, k)
                             /\ ~Coerces(FieldOf(fields, k), m[k])}
        unknown == {k \in Keys : m[k] # Absent /\ ~Declared(fields, k)}
        missing == {i \in 1..Len(fields) :
                        m[fields[i].name] = Absent /\ ~fields[i].optional}
        first == CHOOSE i \in missing : \A j \in missing : i <= j
    IN  IF unknown # {}
        THEN [ok |-> FALSE, fields |-> NoEntries,
              err |-> SerdeError("unknown_field", CHOOSE k \in unknown : TRUE)]
        ELSE IF bad # {}
        THEN [ok |-> FALSE, fields |-> NoEntries,
              err |-> SerdeError("invalid_type", "")]
        ELSE IF missing # {}
        THEN [ok |-> FALSE, fields |-> NoEntries,
              err |-> SerdeError("missing_field", fields[first].name)]
        ELSE [ok |-> TRUE,
              fields |-> [k \in Keys |->
                            IF Declared(fields, k)
                            THEN FieldValue(FieldOf(fields, k), m[k])
                            ELSE Absent],
              err |-> NoError]

\* visit_map: every entry is visited; an entry of an undeclared key is skipped
VisitMap(fields, m) ==
    LET bad == {k \in Keys : /\ m[k] # Absent
                             /\ Declared(fields, k)
                             /\ ~Coerces(FieldOf(fields, k), m[k])}
        missing == {i \in 1..Len(fields) :
                        m[fields[i].name] = Absent /\ ~fields[i].optional}
        first == CHOOSE i \in missing : \A j \in missing : i <= j
    IN  IF bad # {}
        THEN [ok |-> FALSE, fields |-> NoEntries,
              err |-> SerdeError("invalid_type", "")]
        ELSE IF missing # {}
        THEN [ok |-> FALSE, fields |-> NoEntries,
              err |-> SerdeError("missing_field", fields[first].name)]
        ELSE [ok |-> TRUE,
              fields |-> [k \in Keys |->
                            IF Declared(fields, k)
                            THEN FieldValue(FieldOf(fields, k), m[k])
                            ELSE Absent],
              err |-> NoError]

\* visit_seq: the fields are taken by position
VisitSeq(fields, a) ==
    LET failing == {i \in 1..Len(fields) :
                        i > Len(a) \/ ~Coerces(fields[i], a[i])}
        first == CHOOSE i \in failing : \A j \in failing : i <= j
    IN  IF failing # {}
        THEN [ok |-> FALSE, fields |-> NoEntries,
              err |-> IF first > Len(a)
                      THEN SerdeError("invalid_length", "")
                      ELSE SerdeError("invalid_type", "")]
        ELSE IF Len(a) > Len(fields)
        THEN [ok |-> FALSE, fields |-> NoEntries,
              err |-> SerdeError("invalid_length", "")]
        ELSE [ok |-> TRUE,
              fields |-> [k \in Keys |->
                            IF Declared(fields, k)
                            THEN a[CHOOSE i \in 1..Len(fields) : fields[i].name = k]
                            ELSE Absent],
              err |-> NoError]

DeserializeStruct(bag, fields) ==
    CASE bag.t = "object" -> VisitMap(fields, bag.m)
      [] bag.t = "array"  -> VisitSeq(fields, bag.a)
      [] OTHER -> [ok |-> FALSE, fields |-> NoEntries,
                   err |-> SerdeError("invalid_type", "")]

----------------------------------------------------------------------------
(* Wire payloads and the raw response model (DetectIntentResponse).        *)
(* envelope: the payload is JSON with a well-formed queryResult;           *)
(* hasParameters: queryResult has a `parameters` member.                   *)

WireBody(envelope, hasParameters, parameters, intent) ==
    [envelope |-> envelope, hasParameters |-> hasParameters,
     parameters |-> parameters, intent |-> intent]

NoBody == WireBody(FALSE, FALSE, JNull, NoIntent)

Bodies ==
    {NoBody}
    \cup {WireBody(TRUE, FALSE, JNull, i) : i \in Intents}
    \cup {WireBody(TRUE, TRUE, p, i) : p \in JsonValues, i \in Intents}

NoRes == [parsed |-> FALSE, parameters |-> JNull, intent |-> NoIntent]

\* derived Deserialize of QueryResult: `parameters` has no serde(default)
ParseResponse(b) ==
    IF b.envelope /\ b.hasParameters
    THEN [parsed |-> TRUE, parameters |-> b.parameters, intent |-> b.intent]
    ELSE NoRes

NoParams == [held |-> FALSE, value |-> JNull]

Parameters(v) == [held |-> TRUE, value |-> v]

NoResult == [status |-> "none", value |-> NoValue, err |-> ""]

Ok(v) == [status |-> "ok", value |-> v, err |-> ""]

Err(e) == [status |-> "err", value |-> NoValue, err |-> e]

\* the closure of every map_err around the response: the cause is dropped
MapErr(e) == "ResponseNotDeserializable"

----------------------------------------------------------------------------
Init ==
    /\ I \in EnumTypes
    /\ pc = "start"
    /\ body = NoBody
    /\ res = NoRes
    /\ selected = NoVariant
    /\ params = NoParams
    /\ derr = NoError
    /\ result = NoResult
    /\ nToken = 0
    /\ nPost = 0
    /\ nJson = 0
    /\ nDecode = 0
    /\ bagReads = 0

\* the request is built and auth.get_token(SCOPES) is awaited
Start ==
    /\ pc = "start"
    /\ pc' = "await_token"
    /\ nToken' = nToken + 1
    /\ UNCHANGED <<I, body, res, selected, params, derr, result,
                   nPost, nJson, nDecode, bagReads>>

\* get_token fails: map_err(|_| TokenNotAvailable)?
TokenErr ==
    /\ pc = "await_token"
    /\ pc' = "done"
    /\ result' = Err("TokenNotAvailable")
    /\ UNCHANGED <<I, body, res, selected, params, derr,
                   nToken, nPost, nJson, nDecode, bagReads>>

\* the token is there: the POST is sent and awaited
TokenOk ==
    /\ pc = "await_token"
    /\ pc' = "await_send"
    /\ nPost' = nPost + 1
    /\ UNCHANGED <<I, body, res, selected, params, derr, result,
                   nToken, nJson, nDecode, bagReads>>

\* a failed send() tried again
SendErrRetry ==
    /\ pc = "await_send"
    /\ nPost < 3
    /\ nPost' = nPost + 1
    /\ UNCHANGED <<I, pc, body, res, selected, params, derr, result,
                   nToken, nJson, nDecode, bagReads>>

\* send() fails: the reqwest error is returned by `?`
SendErr ==
    /\ pc = "await_send"
    /\ pc' = "done"
    /\ result' = Err("Reqwest")
    /\ UNCHANGED <<I, body, res, selected, params, derr,
                   nToken, nPost, nJson, nDecode, bagReads>>

\* send() answers: res.json() is awaited
SendOk ==
    /\ pc = "await_send"
    /\ \E b \in Bodies : body' = b
    /\ pc' = "await_json"
    /\ nJson' = nJson + 1
    /\ UNCHANGED <<I, res, selected, params, derr, result,
                   nToken, nPost, nDecode, bagReads>>

\* res.json() fails
JsonErr ==
    /\ pc = "await_json"
    /\ ~ParseResponse(body).parsed
    /\ pc' = "done"
    /\ result' = Err(MapErr(NoError))
    /\ UNCHANGED <<I, body, res, selected, params, derr,
                   nToken, nPost, nJson, nDecode, bagReads>>

\* res.json() yields the raw response; I::deserialize(res) is entered
JsonOk ==
    /\ pc = "await_json"
    /\ ParseResponse(body).parsed
    /\ res' = ParseResponse(body)
    /\ pc' = "deserialize"
    /\ nDecode' = nDecode + 1
    /\ UNCHANGED <<I, body, selected, params, derr, result,
                   nToken, nPost, nJson, bagReads>>

\* deserialize_enum -> visit_enum -> variant_seed
DeserializeEnum ==
    /\ pc = "deserialize"
    /\ LET vs == VariantSeed(I, res)
       IN  /\ bagReads' = bagReads + vs.reads
           /\ res' = NoRes
           /\ IF vs.ok
              THEN /\ selected' = vs.variant
                   /\ params' = Parameters(res.parameters)
                   /\ pc' = "variant"
                   /\ UNCHANGED <<derr, result>>
              ELSE /\ derr' = vs.err
                   /\ result' = Err(MapErr(vs.err))
                   /\ pc' = "done"
                   /\ UNCHANGED <<selected, params>>
    /\ UNCHANGED <<I, body, nToken, nPost, nJson, nDecode>>

\* a unit variant that insists on an empty parameter object
UnitAccessStrict(bag) ==
    IF bag.t = "object" /\ Present(bag) = {}
    THEN [ok |-> TRUE, err |-> NoError, reads |-> 1]
    ELSE [ok |-> FALSE, err |-> SerdeError("invalid_length", ""), reads |-> 1]

\* what unit_variant does with the Parameters it is given
UnitAccess(bag) == [ok |-> TRUE, err |-> NoError, reads |-> 0]

UnitVariant ==
    /\ pc = "variant"
    /\ selected.kind = "unit"
    /\ LET ua == UnitAccess(params.value)
       IN  /\ bagReads' = bagReads + ua.reads
           /\ derr' = ua.err
           /\ result' = IF ua.ok THEN Ok(EnumValue(selected.tag, NoEntries))
                                 ELSE Err(MapErr(ua.err))
    /\ params' = NoParams
    /\ pc' = "done"
    /\ UNCHANGED <<I, body, res, selected, nToken, nPost, nJson, nDecode>>

StructVariant ==
    /\ pc = "variant"
    /\ selected.kind = "struct"
    /\ LET ds == DeserializeStruct(params.value, selected.fields)
       IN  /\ derr' = ds.err
           /\ result' = IF ds.ok THEN Ok(EnumValue(selected.tag, ds.fields))
                                 ELSE Err(MapErr(ds.err))
    /\ bagReads' = bagReads + 1
    /\ params' = NoParams
    /\ pc' = "done"
    /\ UNCHANGED <<I, body, res, selected, nToken, nPost, nJson, nDecode>>

\* unimplemented!()
NewtypeVariantSeed ==
    /\ pc = "variant"
    /\ selected.kind = "newtype"
    /\ params' = NoParams
    /\ pc' = "panicked"
    /\ UNCHANGED <<I, body, res, selected, derr, result,
                   nToken, nPost, nJson, nDecode, bagReads>>

\* unimplemented!()
TupleVariant ==
    /\ pc = "variant"
    /\ selected.kind = "tuple"
    /\ params' = NoParams
    /\ pc' = "panicked"
    /\ UNCHANGED <<I, body, res, selected, derr, result,
                   nToken, nPost, nJson, nDecode, bagReads>>

\* the future is dropped while suspended at one of its await points
Cancel ==
    /\ pc \in {"await_token", "await_send", "await_json"}
    /\ pc' = "cancelled"
    /\ UNCHANGED <<I, body, res, selected, params, derr, result,
                   nToken, nPost, nJson, nDecode, bagReads>>

Next ==
    \/ Start
    \/ TokenErr
    \/ TokenOk
    \/ SendErr
    \/ SendOk
    \/ JsonErr
    \/ JsonOk
    \/ DeserializeEnum
    \/ UnitVariant
    \/ StructVariant
    \/ NewtypeVariantSeed
    \/ TupleVariant
    \/ Cancel

Spec == Init /\ [][Next]_vars

----------------------------------------------------------------------------
(* I::deserialize(res) as one function: the outcome of the two decode      *)
(* steps above, for a raw response r and an enum type E.                   *)

Outcome(end, r, e) == [end |-> end, result |-> r, derr |-> e]

VariantAccess(v, bag) ==
    CASE v.kind = "unit" ->
            LET ua == UnitAccess(bag)
            IN  Outcome("done",
                        IF ua.ok THEN Ok(EnumValue(v.tag, NoEntries))
                                 ELSE Err(MapErr(ua.err)),
                        ua.err)
      [] v.kind = "struct" ->
            LET ds == DeserializeStruct(bag, v.fields)
            IN  Outcome("done",
                        IF ds.ok THEN Ok(EnumValue(v.tag, ds.fields))
                                 ELSE Err(MapErr(ds.err)),
                        ds.err)
      [] OTHER -> Outcome("panicked", NoResult, NoError)

Deserialize(E, r) ==
    LET vs == VariantSeed(E, r)
    IN  IF vs.ok
        THEN VariantAccess(vs.variant, r.parameters)
        ELSE Outcome("done", Err(MapErr(vs.err)), vs.err)

----------------------------------------------------------------------------
(* Vocabulary of the properties *)

\* the decode of the response has run to its end
Decoded == pc = "done" /\ nDecode = 1

Tags(E) == {v.tag : v \in E}

\* names a caller may give the variant meant for unrecognized input
FallbackTags == {"unknown", "unrecognized"}

Fallbacks(E) == {v \in E : v.tag \in FallbackTags}

Required(fields) == {i \in 1..Len(fields) : ~fields[i].optional}

MissingRequired(fields, m) ==
    {fields[i].name : i \in {j \in Required(fields) : m[fields[j].name] = Absent}}

Mismatched(fields, m) ==
    {k \in Keys : /\ m[k] # Absent
                  /\ Declared(fields, k)
                  /\ ~Coerces(FieldOf(fields, k), m[k])}

Undeclared(fields, m) == {k \in Keys : m[k] # Absent /\ ~Declared(fields, k)}

Without(bag, k) == JObj([bag.m EXCEPT ![k] = Absent])

----------------------------------------------------------------------------
(* C1, as claimed: whenever the enum has a fallback variant, whatever its  *)
(* name, a response with no intent name decodes successfully to it, for    *)
(* every parameter value.                                                  *)
C1_FallbackWhateverItsName ==
    (Decoded /\ ~body.intent.some /\ Cardinality(Fallbacks(I)) = 1)
        => /\ result.status = "ok"
           /\ result.value.tag \in Tags(Fallbacks(I))

(* C1, amended: with no intent name the variant selected is the one tagged *)
(* exactly `unknown`; when that variant is a unit variant the decode       *)
(* succeeds with it for every parameter value; when the enum has no        *)
(* variant tagged `unknown` (a fallback under another name included) the   *)
(* decode fails with an unknown-variant error for `unknown`.               *)
C1_FallbackIsTheUnknownTag ==
    /\ (pc = "variant" /\ ~body.intent.some) => selected.tag = "unknown"
    /\ (Decoded /\ ~body.intent.some /\ Unknown \in I)
        => result = Ok(EnumValue("unknown", NoEntries))
    /\ (Decoded /\ ~body.intent.some /\ "unknown" \notin Tags(I))
        => /\ result.status = "err"
           /\ derr = SerdeError("unknown_variant", "unknown")

C1_Witness ==
    /\ Decoded
    /\ ~body.intent.some
    /\ I = {Hello, Unknown}
    /\ body.parameters.t = "object"
    /\ Present(body.parameters) # {}
    /\ result = Ok(EnumValue("unknown", NoEntries))

(* C2: an intent name that is present and equal to no variant tag ends the *)
(* decode with the unknown-variant error carrying that name; no variant,   *)
(* fallback or other, is selected or returned.                             *)
C2_UnmappedIntentIsUnknownVariant ==
    (nDecode = 1 /\ pc # "deserialize"
        /\ body.intent.some /\ body.intent.name \notin Tags(I))
        => /\ pc = "done"
           /\ selected = NoVariant
           /\ result.status = "err"
           /\ result.value = NoValue
           /\ derr = SerdeError("unknown_variant", body.intent.name)

C2_Witness ==
    /\ Decoded
    /\ body.intent = SomeIntent("Hello")
    /\ Hello \in I
    /\ Unknown \in I
    /\ derr = SerdeError("unknown_variant", "Hello")

C4_NeverPanics == pc # "panicked"

(* C5: a response without `parameters`, or with it null, is accepted and   *)
(* decoded as with an empty object of parameters; a `parameters` that is   *)
(* neither an object nor null is rejected before any variant is selected.  *)
C5_ParametersDefaultToEmpty ==
    (nJson = 1 /\ pc \in {"done", "panicked"} /\ body.envelope)
        => /\ (~body.hasParameters \/ body.parameters.t = "null")
                => /\ nDecode = 1
                   /\ LET empty == [parsed |-> TRUE,
                                    parameters |-> JObj(NoEntries),
                                    intent |-> body.intent]
                      IN  /\ pc = Deserialize(I, empty).end
                          /\ result = Deserialize(I, empty).result
           /\ (body.hasParameters /\ body.parameters.t \notin {"object", "null"})
                => /\ nDecode = 0
                   /\ result.status = "err"

(* C6: once a unit variant is selected the decode succeeds with it for     *)
(* every parameter value, and the value is never read.                     *)
C6_UnitVariantIgnoresBag ==
    (Decoded /\ selected.kind = "unit")
        => /\ result = Ok(EnumValue(selected.tag, NoEntries))
           /\ derr = NoError
           /\ bagReads = 0

C6_Witness ==
    /\ Decoded
    /\ selected = Hello
    /\ body.parameters.t = "object"
    /\ body.parameters.m["extra"] = ScNum(3)
    /\ body.parameters.m["location"] = ScStr("Paris")
    /\ result = Ok(EnumValue("hello", NoEntries))

(* C7: for a struct variant, an object of parameters with a key k that is  *)
(* not a declared field decodes to the same value as the object without k, *)
(* whenever the object without k decodes.                                  *)
C7_UndeclaredKeyIgnored ==
    (Decoded /\ selected.kind = "struct" /\ body.parameters.t = "object")
        => \A k \in Undeclared(selected.fields, body.parameters.m) :
              LET d == DeserializeStruct(Without(body.parameters, k),
                                         selected.fields)
              IN  d.ok => result = Ok(EnumValue(selected.tag, d.fields))

C7_Witness ==
    /\ Decoded
    /\ selected = Weather
    /\ body.parameters.t = "object"
    /\ body.parameters.m["extra"] = ScNum(3)
    /\ result.status = "ok"
    /\ result.value.fields["location"] = ScStr("Paris")
    /\ result.value.fields["extra"] = Absent

(* C8: the steps of one call run in the order token, POST, parse, decode,  *)
(* each at most once; a failed step ends the call with its error and no    *)
(* later step runs; a call that has ended or was dropped does nothing more.*)
Calls == <<nToken, nPost, nJson, nDecode>>

C8_Counts ==
    /\ pc = "start" => Calls = <<0, 0, 0, 0>>
    /\ pc = "await_token" => Calls = <<1, 0, 0, 0>>
    /\ pc = "await_send" => Calls = <<1, 1, 0, 0>>
    /\ pc = "await_json" => Calls = <<1, 1, 1, 0>>
    /\ pc \in {"deserialize", "variant", "panicked"} => Calls = <<1, 1, 1, 1>>
    /\ pc = "cancelled" => nDecode = 0 /\ result = NoResult
    /\ pc = "done" =>
         CASE result.err = "TokenNotAvailable" -> Calls = <<1, 0, 0, 0>>
           [] result.err = "Reqwest" -> Calls = <<1, 1, 0, 0>>
           [] result.err = "ResponseNotDeserializable" ->
                Calls \in {<<1, 1, 1, 0>>, <<1, 1, 1, 1>>}
           [] OTHER -> result.status = "ok" /\ Calls = <<1, 1, 1, 1>>

C8_OneOrderedAttempt ==
    /\ []C8_Counts
    /\ [][/\ pc \notin {"done", "panicked", "cancelled"}
          /\ result = NoResult]_vars

C8_Witness ==
    /\ pc = "done"
    /\ result = Err("Reqwest")
    /\ Calls = <<1, 1, 0, 0>>

(* C9: the parameter value is not read before a variant is selected, is    *)
(* handed to the selected variant's decoder only, is read at most once and *)
(* only by the struct decoder, is not kept afterwards, and is never read   *)
(* when no variant was selected.                                           *)
C9_BagReadOnlyAfterSelection ==
    /\ pc \in {"start", "await_token", "await_send", "await_json",
               "deserialize", "cancelled"}
        => bagReads = 0 /\ ~params.held /\ selected = NoVariant
    /\ pc = "variant"
        => /\ bagReads = 0
           /\ params = Parameters(body.parameters)
           /\ selected \in I
    /\ pc \in {"done", "panicked"}
        => /\ ~params.held
           /\ bagReads <= 1
           /\ bagReads = 1 => selected.kind = "struct"
           /\ selected = NoVariant => bagReads = 0

C9_Witness ==
    /\ Decoded
    /\ selected = Weather
    /\ bagReads = 1
    /\ ~params.held
    /\ result.status = "ok"

(* C10: a response whose intent is named `unknown` ends exactly as the     *)
(* same response without intent does: same variant and fields, same error, *)
(* or the same panic.                                                      *)
C10_UnknownNameIsNoIntent ==
    (nDecode = 1 /\ pc \in {"done", "panicked"}
        /\ body.intent = SomeIntent("unknown"))
        => Outcome(pc, result, derr)
             = Deserialize(I, [parsed |-> TRUE,
                               parameters |-> body.parameters,
                               intent |-> NoIntent])

C10_Witness ==
    /\ Decoded
    /\ body.intent = SomeIntent("unknown")
    /\ Unknown \in I
    /\ Unrecognized \in I
    /\ result = Ok(EnumValue("unknown", NoEntries))

====
